---- MODULE Spec2Model ----
(***************************************************************************)
(* Model of the CUP ingest engine: format detection, the four parsers      *)
(* (json-transcript, chat-log, whatsapp, srt), the parseInput orchestrator *)
(* and the ingest / POST /ingest persistence path.                         *)
(*                                                                         *)
(* Strings are sequences of one-character strings.  A JavaScript value     *)
(* that may be missing is a record [k, s]: k = "str" (a string, s its      *)
(* characters), "absent" (undefined / key not present) or "nonstr" (a      *)
(* truthy value that is not a string, such as the number 5).  An optional   *)
(* number is a record [k, v]: k = "num", "undef" or "nan".                 *)
(***************************************************************************)
EXTENDS Integers, Sequences, FiniteSets, TLC

\* ------------------------------------------------------------------ bounds
MaxEntries == 4
MaxMsgs == 3
MaxLines == 3
MaxBlocks == 2
MaxSmall == 1
MaxLong == 6
MaxPlain == 9
NumCalls == 2

\* ------------------------------------------------------------------ values
Str(s) == [k |-> "str", s |-> s]
NoVal == [k |-> "absent", s |-> <<>>]
NonStr == [k |-> "nonstr", s |-> <<>>]
Num(n) == [k |-> "num", v |-> n]
Undef == [k |-> "undef", v |-> 0]
NaN == [k |-> "nan", v |-> 0]

\* JavaScript truthiness of a value: undefined and "" are falsy.
Truthy(x) == x.k = "nonstr" \/ (x.k = "str" /\ x.s # <<>>)
\* a || b
OrElse(a, b) == IF Truthy(a) THEN a ELSE b
\* "key" in obj
HasKey(x) == x.k # "absent"
\* a - b on JavaScript numbers (NaN is contagious)
Sub(a, b) == IF a.k = "num" /\ b.k = "num" THEN Num(a.v - b.v) ELSE NaN

SeqsUpTo(S, n) == UNION {[1..m -> S] : m \in 0..n}

\* ------------------------------------------------------------------ strings
WS == {" ", "\n", "\t", "\r"}
Letters == {"a", "b", "h", "i", "A", "B"}
Digits == {"0", "1", "2", "3", "4", "5", "6", "7", "8", "9"}

RECURSIVE TrimStart(_)
TrimStart(s) == IF s # <<>> /\ Head(s) \in WS THEN TrimStart(Tail(s)) ELSE s

RECURSIVE TrimEnd(_)
TrimEnd(s) ==
    IF s # <<>> /\ s[Len(s)] \in WS THEN TrimEnd(SubSeq(s, 1, Len(s) - 1)) ELSE s

\* String.prototype.trim
Trim(s) == TrimEnd(TrimStart(s))

\* line.trim() is the empty string
IsBlank(s) == Trim(s) = <<>>

RECURSIVE JoinLines(_)
\* lines.join("\n")
JoinLines(ls) ==
    IF ls = <<>> THEN <<>>
    ELSE IF Len(ls) = 1 THEN ls[1]
    ELSE ls[1] \o <<"\n">> \o JoinLines(Tail(ls))

\* A turn of the canonical form (NormalizedTurn).
Turn(speaker, text, startMs, endMs, idx, srtIndex, orig) ==
    [speaker |-> speaker, text |-> text, startMs |-> startMs, endMs |-> endMs,
     turnIndex |-> idx, srtIndex |-> srtIndex, orig |-> orig]

\* NormalizedConversation; channel is metadata.channel of a chat log.
Conv(title, source, turns, channel) ==
    [title |-> title, source |-> source, turns |-> turns, channel |-> channel]

NoConv == Conv(NoVal, "", <<>>, NoVal)

\* What a parser call produces: a conversation, or a thrown exception.
Parsed(conv) == [threw |-> FALSE, msg |-> "", conv |-> conv]
Threw(msg) == [threw |-> TRUE, msg |-> msg, conv |-> NoConv]

\* ------------------------------------------------------------------ chat-log
\* 4102444800 seconds (year 2100).  A numeric ts is held in units of 100 s and
\* a time in milliseconds in units of 100000 ms, so floor(ts * 1000) is the
\* same number and floor(ts) is the number divided by 1000.
TsThreshold == 41024448

Field(k, v) == [k |-> k, v |-> v]
NoField == Field("absent", 0)

\* A ChatLogMessage with no key at all.
NoMsg ==
    [obj |-> TRUE, user |-> NoVal, username |-> NoVal, author |-> NoVal,
     sender |-> NoVal, text |-> NoVal, message |-> NoVal, content |-> NoVal,
     ts |-> NoField, timestamp |-> NoField, date |-> NoField, time |-> NoField]

extractSpeaker(message) ==
    OrElse(message.user,
      OrElse(message.username,
        OrElse(message.author,
          OrElse(message.sender, Str(<<"Unknown">>)))))

extractText(message) ==
    OrElse(message.text, OrElse(message.message, OrElse(message.content, Str(<<>>))))

\* new Date(str).getTime() of a field: "date" parses to v, anything else is NaN.
DateOf(f) == IF f.k = "date" THEN Num(f.v) ELSE NaN

\* new Date(`${date} ${time}`).getTime(): the time of day is added to the day.
DateTimeOf(d, t) ==
    IF d.k = "date" /\ t.k = "date" THEN Num(d.v + t.v) ELSE NaN

parseTimestampToMs(message) ==
    IF message.ts.k # "absent"
    THEN IF message.ts.k = "numstr"
         THEN IF message.ts.v < TsThreshold
              THEN Num(message.ts.v)
              ELSE Num(message.ts.v \div 1000)
         ELSE NaN
    ELSE IF message.timestamp.k # "absent" /\ DateOf(message.timestamp).k = "num"
    THEN DateOf(message.timestamp)
    ELSE IF message.date.k # "absent"
              /\ (IF message.time.k # "absent"
                  THEN DateTimeOf(message.date, message.time)
                  ELSE DateOf(message.date)).k = "num"
    THEN IF message.time.k # "absent"
         THEN DateTimeOf(message.date, message.time)
         ELSE DateOf(message.date)
    ELSE Undef

\* The sort comparator of parseChatLog: -1, 0 or 1 (a NaN result counts as 0).
compare(a, b) ==
    LET tsA == parseTimestampToMs(a)
        tsB == parseTimestampToMs(b)
    IN  IF tsA.k # "num" \/ tsB.k # "num" THEN 0
        ELSE IF tsA.v < tsB.v THEN -1
        ELSE IF tsA.v > tsB.v THEN 1
        ELSE 0

\* Array.prototype.sort requires a consistent comparator: "equal" must be
\* transitive.  With one it is a stable sort.
ConsistentComparator(ms) ==
    \A i, j, l \in 1..Len(ms) :
        (compare(ms[i], ms[j]) = 0 /\ compare(ms[j], ms[l]) = 0)
            => compare(ms[i], ms[l]) = 0

RECURSIVE InsertStable(_, _)
InsertStable(sorted, x) ==
    IF sorted = <<>> THEN <<x>>
    ELSE IF compare(sorted[Len(sorted)], x) <= 0 THEN Append(sorted, x)
    ELSE Append(InsertStable(SubSeq(sorted, 1, Len(sorted) - 1), x),
                sorted[Len(sorted)])

RECURSIVE StableSort(_)
StableSort(ms) ==
    IF ms = <<>> THEN <<>>
    ELSE InsertStable(StableSort(SubSeq(ms, 1, Len(ms) - 1)), ms[Len(ms)])

\* [...input.messages].sort(cmp): the stable sort, or, when the comparator is
\* not consistent, an implementation-defined order: any permutation.
SortOutcomes(ms) ==
    IF ConsistentComparator(ms) THEN {StableSort(ms)}
    ELSE {[i \in 1..Len(ms) |-> ms[p[i]]] : p \in Permutations(1..Len(ms))}

\* Math.min(...timestamps), 0 when there is none.
baseTimestamp(sortedMessages) ==
    LET ts == {parseTimestampToMs(sortedMessages[i]) : i \in 1..Len(sortedMessages)}
        have == {t \in ts : t.k # "undef"}
    IN  IF have = {} THEN Num(0)
        ELSE IF \E t \in have : t.k = "nan" THEN NaN
        ELSE Num(CHOOSE n \in {t.v : t \in have} : \A t \in have : n <= t.v)

\* .filter((msg) => extractText(msg).trim() !== "")
keepsMessage(msg) == ~IsBlank(extractText(msg).s)

chatTurn(message, index, base) ==
    LET absoluteMs == parseTimestampToMs(message)
    IN  Turn(extractSpeaker(message), extractText(message),
             IF absoluteMs.k # "undef" THEN Sub(absoluteMs, base) ELSE Undef,
             Undef, index, Undef, <<>>)

\* Mutant of chatTurns: the index is taken before the empty texts are dropped.
chatTurnsIndexedBeforeFilter(sortedMessages) ==
    LET base == baseTimestamp(sortedMessages)
        all == [i \in 1..Len(sortedMessages) |-> chatTurn(sortedMessages[i], i - 1, base)]
        keepsTurn(t) == ~IsBlank(t.text.s)
    IN  SelectSeq(all, keepsTurn)

chatTurns(sortedMessages) ==
    LET kept == SelectSeq(sortedMessages, keepsMessage)
        base == baseTimestamp(sortedMessages)
    IN  [i \in 1..Len(kept) |-> chatTurn(kept[i], i - 1, base)]

\* Mutant of parseChatLogSorted: the channel is preferred to the input title.
parseChatLogChannelFirst(input, title, sortedMessages) ==
    IF \E i \in 1..Len(sortedMessages) :
           ~sortedMessages[i].obj \/ extractText(sortedMessages[i]).k = "nonstr"
    THEN Threw("TypeError")
    ELSE Parsed(Conv(OrElse(title, OrElse(input.channel,
                       OrElse(input.title, Str(<<"Untitled Chat">>)))),
                     "chat-log", chatTurns(sortedMessages), input.channel))

\* parseChatLog once the sort has produced sortedMessages.  A message that is
\* not an object, or a text that is not a string, raises a TypeError.
parseChatLogSorted(input, title, sortedMessages) ==
    IF \E i \in 1..Len(sortedMessages) :
           ~sortedMessages[i].obj \/ extractText(sortedMessages[i]).k = "nonstr"
    THEN Threw("TypeError")
    ELSE Parsed(Conv(OrElse(title, OrElse(input.title,
                       OrElse(input.channel, Str(<<"Untitled Chat">>)))),
                     "chat-log", chatTurns(sortedMessages), input.channel))

parseChatLog(input, title) ==
    IF \E i \in 1..Len(input.messages.items) : ~input.messages.items[i].obj
    THEN {Threw("TypeError")}
    ELSE {parseChatLogSorted(input, title, sorted) :
              sorted \in SortOutcomes(input.messages.items)}

\* The first three elements of an array: arr.slice(0, 3).
SampleSize == 3
Sample(items) == SubSeq(items, 1, IF Len(items) < SampleSize THEN Len(items) ELSE SampleSize)

chatShape(m) ==
    /\ m.obj
    /\ LET hasText == HasKey(m.text) \/ HasKey(m.message) \/ HasKey(m.content)
           hasUser == HasKey(m.user) \/ HasKey(m.username) \/ HasKey(m.author)
                        \/ HasKey(m.sender)
           hasTimestamp == m.ts.k # "absent" \/ m.timestamp.k # "absent"
                             \/ m.date.k # "absent"
       IN  hasText \/ (hasUser /\ hasTimestamp)

isChatLog(data) ==
    /\ data.kind = "obj"
    /\ data.messages.arr
    /\ \A i \in 1..Len(Sample(data.messages.items)) : chatShape(data.messages.items[i])

\* ------------------------------------------------------------------ json-transcript
\* The timestamp of a JsonTranscriptEntry: absent; "date" (new Date() accepts
\* it, v its epoch ms); or "clock", colon-separated parts, each Number(part).
TsField(k, v, parts) == [k |-> k, v |-> v, parts |-> parts]
NoTs == TsField("absent", 0, <<>>)

NoEntry ==
    [obj |-> TRUE, speaker |-> NoVal, timestamp |-> NoTs, start |-> Undef,
     end |-> Undef, text |-> NoVal]

jsonParseTimestampToMs(timestamp) ==
    IF timestamp.k = "absent" THEN Undef
    ELSE IF timestamp.k = "date" THEN Num(timestamp.v)
    ELSE LET parts == timestamp.parts
         IN  IF \E i \in 1..Len(parts) : parts[i].k # "num" THEN Undef
             ELSE IF Len(parts) = 3
             THEN Num((parts[1].v * 3600 + parts[2].v * 60 + parts[3].v) * 1000)
             ELSE IF Len(parts) = 2
             THEN Num((parts[1].v * 60 + parts[2].v) * 1000)
             ELSE IF Len(parts) = 1 THEN Num(parts[1].v * 1000)
             ELSE Undef

\* Mutant of jsonTurn: entry.start || ..., so that a start of 0 is passed over.
jsonTurnStartTruthy(entry, index) ==
    Turn(OrElse(entry.speaker, Str(<<"Unknown">>)), entry.text,
         IF entry.start.k # "undef" /\ entry.start # Num(0) THEN entry.start
         ELSE jsonParseTimestampToMs(entry.timestamp),
         entry.end, index, Undef, <<>>)

jsonTurn(entry, index) ==
    Turn(OrElse(entry.speaker, Str(<<"Unknown">>)), entry.text,
         IF entry.start.k # "undef" THEN entry.start
         ELSE jsonParseTimestampToMs(entry.timestamp),
         entry.end, index, Undef, <<>>)

\* Reading a property of an entry that is null raises a TypeError.
parseJsonTranscript(input, title) ==
    LET entries == input.entries.items
    IN  IF \E i \in 1..Len(entries) : ~entries[i].obj
        THEN Threw("TypeError")
        ELSE Parsed(Conv(OrElse(title, OrElse(input.title, Str(<<"Untitled Transcript">>))),
                         "json-transcript",
                         [i \in 1..Len(entries) |-> jsonTurn(entries[i], i - 1)],
                         NoVal))

\* Mutant of entryShape: speaker / timestamp are not asked for.
entryShapeTextOnly(entry) == entry.obj /\ HasKey(entry.text)

entryShape(entry) ==
    /\ entry.obj
    /\ HasKey(entry.text)
    /\ (HasKey(entry.speaker) \/ entry.timestamp.k # "absent")

isJsonTranscript(data) ==
    /\ data.kind = "obj"
    /\ data.entries.arr
    /\ \A i \in 1..Len(Sample(data.entries.items)) : entryShape(data.entries.items[i])

\* ------------------------------------------------------------------ text lines
\* A line of a text input, as the patterns of the parsers tokenise it:
\*   "txt"  characters that hold neither a cue range nor a WhatsApp header;
\*   "cue"  an SRT time range, s --> e, each <<H, M, S, mmm>>;
\*   "hdr"  a WhatsApp header "date, time - spk:body".
Txt(chars) ==
    [t |-> "txt", body |-> chars, s |-> <<0, 0, 0, 0>>, e |-> <<0, 0, 0, 0>>,
     date |-> <<>>, time |-> <<>>, spk |-> <<>>]
Cue(s, e) ==
    [t |-> "cue", body |-> <<>>, s |-> s, e |-> e, date |-> <<>>, time |-> <<>>,
     spk |-> <<>>]
Hdr(date, time, spk, body) ==
    [t |-> "hdr", body |-> body, s |-> <<0, 0, 0, 0>>, e |-> <<0, 0, 0, 0>>,
     date |-> date, time |-> time, spk |-> spk]

DigitChars == <<"0", "1", "2", "3", "4", "5", "6", "7", "8", "9">>
DigitVal(c) == (CHOOSE i \in 1..10 : DigitChars[i] = c) - 1
Pad2(n) == <<DigitChars[((n \div 10) % 10) + 1], DigitChars[(n % 10) + 1]>>
Pad3(n) == <<DigitChars[((n \div 100) % 10) + 1]>> \o Pad2(n % 100)
StampChars(x) == Pad2(x[1]) \o <<":">> \o Pad2(x[2]) \o <<":">> \o Pad2(x[3])
                    \o <<",">> \o Pad3(x[4])

\* The characters of a line.
LineChars(l) ==
    IF l.t = "cue"
    THEN StampChars(l.s) \o <<" ", "-", "-", ">", " ">> \o StampChars(l.e)
    ELSE IF l.t = "hdr"
    THEN l.date \o <<",", " ">> \o l.time \o <<" ", "-", " ">> \o l.spk \o <<":">> \o l.body
    ELSE l.body

\* text.split(/\r?\n/).filter((line) => line.trim())
isNonBlank(l) == ~IsBlank(LineChars(l))
NonBlankLines(lines) == SelectSeq(lines, isNonBlank)

\* ------------------------------------------------------------------ whatsapp
NoMatch == [ok |-> FALSE, date |-> <<>>, time |-> <<>>, speaker |-> <<>>, text |-> <<>>]

\* A header matches one of WHATSAPP_PATTERNS when a name ([^:]+) and at least
\* one character after the colon (.+) are there.
parseLine(line) ==
    IF line.t = "hdr" /\ line.spk # <<>> /\ line.body # <<>>
    THEN [ok |-> TRUE, date |-> line.date, time |-> line.time,
          speaker |-> Trim(line.spk), text |-> Trim(line.body)]
    ELSE NoMatch

\* The dates and times of day the inputs use, as new Date() reads them:
\* milliseconds from the start of 1/29/24, local time.
Date0129 == <<"1", "/", "2", "9", "/", "2", "4">>
\* A date the header patterns accept and new Date() rejects in every reading.
DateBad == <<"9", "9", "/", "9", "9", "/", "9", "9">>
Time1430 == <<"2", ":", "3", "0", " ", "P", "M">>
Time1431 == <<"2", ":", "3", "1", " ", "P", "M">>
Time1429 == <<"2", ":", "2", "9", " ", "P", "M">>

parseDateTime(date, time) ==
    IF date # Date0129 THEN Undef
    ELSE IF time = Time1429 THEN Num(52140000)
    ELSE IF time = Time1430 THEN Num(52200000)
    ELSE IF time = Time1431 THEN Num(52260000)
    ELSE Undef

\* turns.push({...}) of the turn being accumulated.
waFlush(st) ==
    Append(st.turns,
           Turn(Str(st.cur.speaker), Str(Trim(st.text)),
                parseDateTime(st.cur.date, st.cur.time), Undef, Len(st.turns),
                Undef, <<st.cur.date, st.cur.time>>))

\* Mutant of waStep: a new header replaces the turn being accumulated
\* without saving it.
waStepNoFlush(st, line) ==
    LET parsed == parseLine(line)
    IN  IF parsed.ok
        THEN [turns |-> st.turns, active |-> TRUE, cur |-> parsed, text |-> parsed.text]
        ELSE IF st.active
        THEN [st EXCEPT !.text = @ \o <<"\n">> \o LineChars(line)]
        ELSE st

\* One iteration of the loop over the lines.
waStep(st, line) ==
    LET parsed == parseLine(line)
    IN  IF parsed.ok
        THEN [turns |-> IF st.active THEN waFlush(st) ELSE st.turns,
              active |-> TRUE, cur |-> parsed, text |-> parsed.text]
        ELSE IF st.active
        THEN [st EXCEPT !.text = @ \o <<"\n">> \o LineChars(line)]
        ELSE st

RECURSIVE waLoop(_, _)
waLoop(st, lines) ==
    IF lines = <<>> THEN st ELSE waLoop(waStep(st, Head(lines)), Tail(lines))

\* Normalize timestamps relative to first message.
waRebase(turns) ==
    IF Len(turns) > 0 /\ turns[1].startMs.k # "undef"
    THEN [i \in 1..Len(turns) |->
            IF turns[i].startMs.k # "undef"
            THEN [turns[i] EXCEPT !.startMs = Sub(@, turns[1].startMs)]
            ELSE turns[i]]
    ELSE turns

parseWhatsApp(text, title) ==
    LET st == waLoop([turns |-> <<>>, active |-> FALSE, cur |-> NoMatch, text |-> <<>>],
                     NonBlankLines(text))
        turns == IF st.active THEN waFlush(st) ELSE st.turns
    IN  Parsed(Conv(OrElse(title, Str(<<"WhatsApp Chat">>)), "whatsapp",
                    waRebase(turns), NoVal))

WaSampleMax == 10
WaPercent == 3

\* Mutant of isWhatsAppText: the fraction must exceed 0.3.
isWhatsAppTextStrict(data) ==
    /\ data.kind = "text"
    /\ LET lines == NonBlankLines(data.lines)
           samplSize == IF Len(lines) < WaSampleMax THEN Len(lines) ELSE WaSampleMax
           matches == Cardinality({i \in 1..samplSize : parseLine(lines[i]).ok})
       IN  /\ Len(lines) >= 2
           /\ matches * 10 > WaPercent * samplSize

isWhatsAppText(data) ==
    /\ data.kind = "text"
    /\ LET lines == NonBlankLines(data.lines)
           samplSize == IF Len(lines) < WaSampleMax THEN Len(lines) ELSE WaSampleMax
           matches == Cardinality({i \in 1..samplSize : parseLine(lines[i]).ok})
       IN  /\ Len(lines) >= 2
           /\ matches * 10 >= WaPercent * samplSize

\* ------------------------------------------------------------------ srt
parseTimestamp(x) == x[1] * 3600000 + x[2] * 60000 + x[3] * 1000 + x[4]

RECURSIVE IndexOf(_, _, _)
\* The position of the first c in s at or after i, 0 when there is none.
IndexOf(s, c, i) ==
    IF i > Len(s) THEN 0 ELSE IF s[i] = c THEN i ELSE IndexOf(s, c, i + 1)

\* /^([A-Za-z][A-Za-z0-9\s]{0,20}):\s*(.+)$/s
namePattern(text) ==
    LET c == IndexOf(text, ":", 1)
    IN  /\ c >= 2 /\ c <= 22
        /\ text[1] \in Letters
        /\ \A i \in 1..(c - 1) : text[i] \in Letters \cup Digits \cup WS
        /\ c < Len(text)

\* /^\[([^\]]+)\]\s*(.+)$/s and /^\(([^)]+)\)\s*(.+)$/s
bracketPattern(text, open, close) ==
    LET c == IndexOf(text, close, 1)
    IN  /\ text # <<>> /\ text[1] = open
        /\ c >= 3
        /\ c < Len(text)

\* extractSpeaker of the srt parser: <<speaker, text>>.
srtExtractSpeaker(text) ==
    IF namePattern(text)
    THEN LET c == IndexOf(text, ":", 1)
         IN  <<Trim(SubSeq(text, 1, c - 1)), Trim(SubSeq(text, c + 1, Len(text)))>>
    ELSE IF bracketPattern(text, "[", "]")
    THEN LET c == IndexOf(text, "]", 1)
         IN  <<Trim(SubSeq(text, 2, c - 1)), Trim(SubSeq(text, c + 1, Len(text)))>>
    ELSE IF bracketPattern(text, "(", ")")
    THEN LET c == IndexOf(text, ")", 1)
         IN  <<Trim(SubSeq(text, 2, c - 1)), Trim(SubSeq(text, c + 1, Len(text)))>>
    ELSE <<<<"Unknown">>, text>>

RECURSIVE digitsValue(_, _)
\* The value of the digits s starts with, after acc.
digitsValue(s, acc) ==
    IF s # <<>> /\ Head(s) \in Digits
    THEN digitsValue(Tail(s), acc * 10 + DigitVal(Head(s)))
    ELSE acc

\* parseInt(line, 10)
parseInt(chars) ==
    LET t == TrimStart(chars)
    IN  IF t # <<>> /\ Head(t) \in Digits THEN Num(digitsValue(t, 0)) ELSE NaN

RECURSIVE splitBlocks(_, _, _)
\* text.split(/\n\s*\n/): the maximal runs of lines that are not blank.
splitBlocks(lines, cur, acc) ==
    IF lines = <<>> THEN (IF cur = <<>> THEN acc ELSE Append(acc, cur))
    ELSE IF isNonBlank(Head(lines))
    THEN splitBlocks(Tail(lines), Append(cur, Head(lines)), acc)
    ELSE splitBlocks(Tail(lines), <<>>, IF cur = <<>> THEN acc ELSE Append(acc, cur))

\* Mutant of validBlock: two lines are enough.
validBlockTwoLines(lines) ==
    /\ Len(lines) >= 2
    /\ parseInt(LineChars(lines[1])).k = "num"
    /\ lines[2].t = "cue"

validBlock(lines) ==
    /\ Len(lines) >= 3
    /\ parseInt(LineChars(lines[1])).k = "num"
    /\ lines[2].t = "cue"

srtBlock(lines) ==
    [index |-> parseInt(LineChars(lines[1])).v,
     startMs |-> parseTimestamp(lines[2].s),
     endMs |-> parseTimestamp(lines[2].e),
     text |-> Trim(JoinLines([i \in 1..(Len(lines) - 2) |-> LineChars(lines[i + 2])]))]

parseSrtBlocks(text) ==
    LET valid == SelectSeq(splitBlocks(text, <<>>, <<>>), validBlock)
    IN  [i \in 1..Len(valid) |-> srtBlock(valid[i])]

srtTurn(block, index) ==
    LET sp == srtExtractSpeaker(block.text)
    IN  Turn(Str(sp[1]), Str(sp[2]), Num(block.startMs), Num(block.endMs), index,
             Num(block.index), <<>>)

parseSrt(text, title) ==
    LET blocks == parseSrtBlocks(text)
    IN  Parsed(Conv(OrElse(title, Str(<<"Subtitle Transcript">>)), "srt",
                    [i \in 1..Len(blocks) |-> srtTurn(blocks[i], i - 1)], NoVal))

allDigits(chars) == chars # <<>> /\ \A i \in 1..Len(chars) : chars[i] \in Digits

isSrtText(data) ==
    /\ data.kind = "text"
    /\ LET lines == NonBlankLines(data.lines)
       IN  /\ Len(lines) >= 3
           /\ allDigits(Trim(LineChars(lines[1])))
           /\ lines[2].t = "cue"

\* ------------------------------------------------------------------ orchestrator
\* A ParseResult, or (thrown) an exception leaving the function.
Failure(error, format) ==
    [thrown |-> FALSE, success |-> FALSE, hasData |-> FALSE, data |-> NoConv,
     error |-> error, format |-> format]
Success(conv, format) ==
    [thrown |-> FALSE, success |-> TRUE, hasData |-> TRUE, data |-> conv,
     error |-> "", format |-> format]
Thrown(msg) ==
    [thrown |-> TRUE, success |-> FALSE, hasData |-> FALSE, data |-> NoConv,
     error |-> msg, format |-> ""]
NoResult == Failure("", "")

UnknownFormatError == "Unknown format. Supported: json-transcript, chat-log, whatsapp, srt"

\* Mutant of detectFormat: the WhatsApp check runs before the SRT check.
detectFormatWhatsAppFirst(data) ==
    IF isJsonTranscript(data) THEN "json-transcript"
    ELSE IF isChatLog(data) THEN "chat-log"
    ELSE IF data.kind = "text" /\ isWhatsAppText(data) THEN "whatsapp"
    ELSE IF data.kind = "text" /\ isSrtText(data) THEN "srt"
    ELSE "unknown"

detectFormat(data) ==
    IF isJsonTranscript(data) THEN "json-transcript"
    ELSE IF isChatLog(data) THEN "chat-log"
    ELSE IF data.kind = "text" /\ isSrtText(data) THEN "srt"
    ELSE IF data.kind = "text" /\ isWhatsAppText(data) THEN "whatsapp"
    ELSE "unknown"

\* options?.format || detectFormat(data); no format given is "".
resolveFormat(data, options) ==
    IF options.format # "" THEN options.format ELSE detectFormat(data)

\* Mutant of caught: the exception is thrown on.
caughtRethrown(format, r) == Thrown(r.msg)

\* The catch block of parseInput.
caught(format, r) == Failure(r.msg, format)

\* The end of the try block: the parser returned, or it threw.
finish(format, r) == IF r.threw THEN caught(format, r) ELSE Success(r.conv, format)

\* The results parseInput can return (the chat-log sort may leave a choice).
parseInput(data, options) ==
    LET format == resolveFormat(data, options)
    IN  IF format = "json-transcript"
        THEN IF ~isJsonTranscript(data)
             THEN {Failure("Data does not match json-transcript format", format)}
             ELSE {finish(format, parseJsonTranscript(data, options.title))}
        ELSE IF format = "chat-log"
        THEN IF ~isChatLog(data)
             THEN {Failure("Data does not match chat-log format", format)}
             ELSE {finish(format, r) : r \in parseChatLog(data, options.title)}
        ELSE IF format = "whatsapp"
        THEN IF data.kind # "text"
             THEN {Failure("WhatsApp format requires plain text input", format)}
             ELSE {finish(format, parseWhatsApp(data.lines, options.title))}
        ELSE IF format = "srt"
        THEN IF data.kind # "text"
             THEN {Failure("SRT format requires plain text input", format)}
             ELSE {finish(format, parseSrt(data.lines, options.title))}
        ELSE {Failure(UnknownFormatError, "unknown")}

\* ------------------------------------------------------------------ inputs
Hi == <<"h", "i">>

eOk == [NoEntry EXCEPT !.speaker = Str(<<"A">>), !.text = Str(Hi),
                       !.timestamp = TsField("clock", 0, <<Num(0), Num(0), Num(5)>>)]
eBare == [NoEntry EXCEPT !.text = Str(Hi)]
eEmpty == [NoEntry EXCEPT !.speaker = Str(<<"B">>), !.text = Str(<<>>)]
eTs == [NoEntry EXCEPT !.timestamp = TsField("clock", 0, <<Num(12)>>), !.text = Str(<<" ">>)]
eNull == [NoEntry EXCEPT !.obj = FALSE]
\* start is 0 and the timestamp says 5 s.
eStart == [NoEntry EXCEPT !.speaker = Str(<<"A">>), !.text = Str(<<"a">>),
                          !.start = Num(0),
                          !.timestamp = TsField("clock", 0, <<Num(0), Num(5)>>)]
\* An empty speaker, start and end, no timestamp.
eEnd == [NoEntry EXCEPT !.speaker = Str(<<>>), !.text = Str(<<"b">>),
                        !.start = Num(7000), !.end = Num(9000)]
EntrySet == {eOk, eBare, eEmpty, eTs, eNull, eStart, eEnd}

mA == [NoMsg EXCEPT !.user = Str(<<"a">>), !.ts = Field("numstr", 1), !.text = Str(Hi)]
mB == [NoMsg EXCEPT !.user = Str(<<"b">>), !.ts = Field("numstr", 2), !.text = Str(<<"a">>)]
mE == [NoMsg EXCEPT !.user = Str(<<"b">>), !.ts = Field("numstr", 1), !.text = Str(<<" ">>)]
mU == [NoMsg EXCEPT !.sender = Str(<<"a">>), !.message = Str(<<"b">>)]
mX == [NoMsg EXCEPT !.text = NonStr]
mK == [NoMsg EXCEPT !.user = Str(<<"a">>), !.ts = Field("numstr", 3)]
mZ == [NoMsg EXCEPT !.user = Str(<<"a">>)]
mN == [NoMsg EXCEPT !.ts = Field("badstr", 0), !.text = Str(Hi)]
mNull == [NoMsg EXCEPT !.obj = FALSE]
\* ts is not a number, timestamp is an ISO date.
mD == [NoMsg EXCEPT !.ts = Field("badstr", 0), !.timestamp = Field("date", 2),
                    !.text = Str(<<"b">>)]
\* timestamp is not a date, date and time are.
mT == [NoMsg EXCEPT !.timestamp = Field("badstr", 0), !.date = Field("date", 1),
                    !.time = Field("date", 2), !.text = Str(<<"i">>)]
\* ts = "4102444800": milliseconds.
mBig == [NoMsg EXCEPT !.ts = Field("numstr", TsThreshold), !.text = Str(<<"h">>)]
MsgSet == {mA, mB, mE, mU, mX, mK, mZ, mN, mNull, mD, mT, mBig}

lOne == Txt(<<"1">>)
lCue == Cue(<<0, 0, 5, 0>>, <<0, 0, 8, 0>>)
lSpk == Txt(<<"A", ":", " ">> \o Hi)
lBlank == Txt(<<>>)
lHi == Txt(Hi)
lHdr == Hdr(Date0129, Time1430, <<"A">>, <<" ">> \o Hi)
lHdrWs == Hdr(Date0129, Time1431, <<"B">>, <<" ">>)
lHdrBad == Hdr(DateBad, Time1429, <<"B">>, <<" ", "a">>)
LineSet == {lOne, lCue, lSpk, lBlank, lHi, lHdr, lHdrWs, lHdrBad}

BlockSet ==
    {<<lOne, lCue, lSpk>>, <<lOne, lCue>>, <<lHi, lCue, lSpk>>,
     <<Txt(<<"2">>), Cue(<<0, 0, 9, 0>>, <<0, 0, 12, 0>>), lHi, lHi>>,
     <<lHdr, lHi>>}

RECURSIVE JoinBlocks(_)
\* The lines of a text made of blocks, a blank line after each.
JoinBlocks(bs) ==
    IF bs = <<>> THEN <<>> ELSE Head(bs) \o <<lBlank>> \o JoinBlocks(Tail(bs))

Arr(items) == [arr |-> TRUE, items |-> items]
NoArr == [arr |-> FALSE, items |-> <<>>]

\* The raw input: an object (with or without entries / messages arrays), a
\* string (its lines) or any other value.
Data(kind, title, channel, entries, messages, lines) ==
    [kind |-> kind, title |-> title, channel |-> channel, entries |-> entries,
     messages |-> messages, lines |-> lines]

Other == Data("other", NoVal, NoVal, NoArr, NoArr, <<>>)
Text(lines) == Data("text", NoVal, NoVal, NoArr, NoArr, lines)
Obj(title, channel, entries, messages) == Data("obj", title, channel, entries, messages, <<>>)

DataTitles == {NoVal, Str(<<>>), Str(<<"T">>)}
Channels == {NoVal, Str(<<>>), Str(<<"#c">>)}
OptTitles == {NoVal, Str(<<>>), Str(<<"X">>)}
Formats == {"", "json-transcript", "chat-log", "whatsapp", "srt", "unknown"}

\* n copies of a line.
Rep(l, n) == [i \in 1..n |-> l]

\* Texts long enough for the sample of isWhatsAppText to be cut: headers, then
\* plain lines, then headers.
WaTexts ==
    {Text(Rep(lHdr, a) \o Rep(lHi, m) \o Rep(lHdrWs, b)) :
        a \in 0..3, m \in 0..MaxPlain, b \in 0..3}

\* Inputs of the parse-only specification.
BigData ==
    {Obj(NoVal, NoVal, Arr(es), NoArr) : es \in SeqsUpTo(EntrySet, MaxEntries)}
      \cup {Obj(NoVal, NoVal, NoArr, Arr(ms)) : ms \in SeqsUpTo(MsgSet, MaxMsgs)}
      \cup {Obj(NoVal, NoVal, Arr(es), Arr(ms)) :
               es \in SeqsUpTo({eOk, eBare}, 1), ms \in SeqsUpTo({mA, mZ}, 1)}
      \cup {Text(ls) : ls \in SeqsUpTo(LineSet, MaxLines)}
      \cup {Text(JoinBlocks(bs)) : bs \in SeqsUpTo(BlockSet, MaxBlocks)}
      \cup WaTexts
      \cup {Other, Obj(NoVal, NoVal, NoArr, NoArr)}

\* Inputs of the specification of the whole ingest path.
SmallData ==
    {Obj(t, NoVal, Arr(es), NoArr) : t \in DataTitles, es \in SeqsUpTo(EntrySet, MaxSmall)}
      \cup {Obj(t, ch, NoArr, Arr(ms)) :
               t \in DataTitles, ch \in Channels, ms \in SeqsUpTo(MsgSet, MaxSmall)}
      \cup {Text(JoinBlocks(bs)) : bs \in SeqsUpTo(BlockSet, MaxSmall)}
      \cup {Text(<<lHi>>), Text(<<lHdrWs, lHdr>>), Other}

\* Transcripts long enough for a preview to cut them.
LongData ==
    {Obj(NoVal, NoVal, Arr(es), NoArr) :
        es \in UNION {[1..n -> {eOk, eBare}] : n \in 5..MaxLong}}

Request(entry, data, format, title) ==
    [entry |-> entry, data |-> data, format |-> format, title |-> title]

Options(r) == [format |-> r.format, title |-> r.title]

\* ------------------------------------------------------------------ state
VARIABLES
    req,              \* per call: the entry point called and its arguments
    pc,               \* per call: where the call is
    detected,         \* per call: what detectFormat returned
    parseResult,      \* per call: what parseInput returned
    conversation,     \* per call: the id of the row the conversation insert returned
    outcome,          \* per call: the value returned, or the error thrown
    response,         \* per call: the HTTP response of the route
    dbConversations,  \* the conversations table
    dbTurns,          \* the turns table
    dbLog,            \* the inserts the database executed, in order
    nextId            \* the next generated conversation id

vars == <<req, pc, detected, parseResult, conversation, outcome, response,
          dbConversations, dbTurns, dbLog, nextId>>

Calls == 1..NumCalls

NoOutcome == [kind |-> "none", conversationId |-> 0, turnCount |-> 0, error |-> ""]
Returned(id, n) == [kind |-> "value", conversationId |-> id, turnCount |-> n, error |-> ""]
Rejected(msg) == [kind |-> "thrown", conversationId |-> 0, turnCount |-> 0, error |-> msg]

NoResponse ==
    [status |-> 0, conversationId |-> 0, turnCount |-> 0, format |-> "", error |-> "",
     title |-> NoVal, source |-> "", turns |-> <<>>]

OffReq == Request("off", Other, "", NoVal)

\* The state before the calls in rs run; rs gives each running call its request.
InitWith(rs) ==
    /\ req = [c \in Calls |-> IF c \in DOMAIN rs THEN rs[c] ELSE OffReq]
    /\ pc = [c \in Calls |->
               IF c \notin DOMAIN rs THEN "off"
               ELSE IF rs[c].entry = "ingest" THEN "ingest" ELSE "call"]
    /\ detected = [c \in Calls |-> ""]
    /\ parseResult = [c \in Calls |-> NoResult]
    /\ conversation = [c \in Calls |-> 0]
    /\ outcome = [c \in Calls |-> NoOutcome]
    /\ response = [c \in Calls |-> NoResponse]
    /\ dbConversations = {}
    /\ dbTurns = {}
    /\ dbLog = <<>>
    /\ nextId = 1

Init ==
    \E e \in {"detect", "parse", "ingest", "route", "preview"},
       d \in SmallData \cup LongData, f \in Formats, t \in OptTitles :
        /\ e \in {"route", "preview"} => f # "unknown"
        /\ e = "detect" => (f = "" /\ t = NoVal)
        /\ InitWith(<<Request(e, d, f, t)>>)

InitParse ==
    \E e \in {"detect", "parse"}, d \in BigData, f \in Formats :
        /\ e = "detect" => f = ""
        /\ InitWith(<<Request(e, d, f, NoVal)>>)

\* ------------------------------------------------------------------ actions
\* A direct call of detectFormat.
CallDetectFormat(c) ==
    /\ req[c].entry = "detect" /\ pc[c] = "call"
    /\ detected' = [detected EXCEPT ![c] = detectFormat(req[c].data)]
    /\ pc' = [pc EXCEPT ![c] = "returned"]
    /\ UNCHANGED <<req, parseResult, conversation, outcome, response,
                   dbConversations, dbTurns, dbLog, nextId>>

\* A direct call of parseInput.
CallParseInput(c) ==
    /\ req[c].entry = "parse" /\ pc[c] = "call"
    /\ \E r \in parseInput(req[c].data, Options(req[c])) :
          /\ parseResult' = [parseResult EXCEPT ![c] = r]
          /\ outcome' = [outcome EXCEPT ![c] =
                           IF r.thrown THEN Rejected(r.error) ELSE Returned(0, 0)]
    /\ pc' = [pc EXCEPT ![c] = "returned"]
    /\ UNCHANGED <<req, detected, conversation, response, dbConversations,
                   dbTurns, dbLog, nextId>>

\* POST /ingest up to the call of ingest: an undetectable format is answered
\* with 400 at once.
RouteIngest(c) ==
    /\ req[c].entry = "route" /\ pc[c] = "call"
    /\ LET detectedFormat == resolveFormat(req[c].data, Options(req[c]))
       IN  /\ detected' = [detected EXCEPT ![c] = detectedFormat]
           /\ IF detectedFormat = "unknown"
              THEN /\ response' = [response EXCEPT ![c] =
                                     [NoResponse EXCEPT !.status = 400,
                                        !.error = "Could not detect input format"]]
                   /\ pc' = [pc EXCEPT ![c] = "responded"]
              ELSE /\ pc' = [pc EXCEPT ![c] = "ingest"]
                   /\ UNCHANGED response
    /\ UNCHANGED <<req, parseResult, conversation, outcome, dbConversations,
                   dbTurns, dbLog, nextId>>

\* Mutant of IngestParse: the parse result is not looked at.
IngestParseUnchecked(c) ==
    /\ req[c].entry \in {"ingest", "route"} /\ pc[c] = "ingest"
    /\ \E r \in parseInput(req[c].data, Options(req[c])) :
          parseResult' = [parseResult EXCEPT ![c] = r]
    /\ pc' = [pc EXCEPT ![c] = "insertConversation"]
    /\ UNCHANGED <<req, detected, conversation, outcome, response,
                   dbConversations, dbTurns, dbLog, nextId>>

\* ingest, up to its first await: parse, and throw when parsing failed.
IngestParse(c) ==
    /\ req[c].entry \in {"ingest", "route"} /\ pc[c] = "ingest"
    /\ \E r \in parseInput(req[c].data, Options(req[c])) :
          /\ parseResult' = [parseResult EXCEPT ![c] = r]
          /\ IF r.thrown \/ ~r.success \/ ~r.hasData
             THEN /\ outcome' = [outcome EXCEPT ![c] =
                       Rejected(IF r.error # "" THEN r.error ELSE "Failed to parse input")]
                  /\ pc' = [pc EXCEPT ![c] = "rejected"]
             ELSE /\ pc' = [pc EXCEPT ![c] = "insertConversation"]
                  /\ UNCHANGED outcome
    /\ UNCHANGED <<req, detected, conversation, response, dbConversations,
                   dbTurns, dbLog, nextId>>

\* The conversation insert succeeds and returns the row with its generated id;
\* with no turn to insert, ingest returns.
InsertConversation(c) ==
    /\ pc[c] = "insertConversation"
    /\ LET normalized == parseResult[c].data
       IN  /\ dbConversations' = dbConversations \cup
                 {[id |-> nextId, title |-> normalized.title,
                   source |-> normalized.source, channel |-> normalized.channel]}
           /\ dbLog' = Append(dbLog, [call |-> c, op |-> "conversations",
                                      id |-> nextId, n |-> 1])
           /\ conversation' = [conversation EXCEPT ![c] = nextId]
           /\ nextId' = nextId + 1
           /\ IF Len(normalized.turns) > 0
              THEN /\ pc' = [pc EXCEPT ![c] = "insertTurns"]
                   /\ UNCHANGED outcome
              ELSE /\ pc' = [pc EXCEPT ![c] = "resolved"]
                   /\ outcome' = [outcome EXCEPT ![c] =
                                    Returned(nextId, Len(normalized.turns))]
    /\ UNCHANGED <<req, detected, parseResult, response, dbTurns>>

\* The conversation insert fails: the database error leaves ingest.
InsertConversationFails(c) ==
    /\ pc[c] = "insertConversation"
    /\ outcome' = [outcome EXCEPT ![c] = Rejected("database error")]
    /\ pc' = [pc EXCEPT ![c] = "rejected"]
    /\ UNCHANGED <<req, detected, parseResult, conversation, response,
                   dbConversations, dbTurns, dbLog, nextId>>

\* Mutant of InsertTurns: the turns do not carry the id the insert returned.
InsertTurnsUnlinked(c) ==
    /\ pc[c] = "insertTurns"
    /\ LET normalized == parseResult[c].data
       IN  /\ dbTurns' = dbTurns \cup
                 {[conversationId |-> 0, turn |-> normalized.turns[i]] :
                     i \in 1..Len(normalized.turns)}
           /\ dbLog' = Append(dbLog, [call |-> c, op |-> "turns", id |-> 0,
                                      n |-> Len(normalized.turns)])
           /\ outcome' = [outcome EXCEPT ![c] =
                            Returned(conversation[c], Len(normalized.turns))]
    /\ pc' = [pc EXCEPT ![c] = "resolved"]
    /\ UNCHANGED <<req, detected, parseResult, conversation, response,
                   dbConversations, nextId>>

\* Mutant of InsertTurns: the conversation id is read from state the calls
\* share (the last id generated) instead of the call's own local.
InsertTurnsLastId(c) ==
    /\ pc[c] = "insertTurns"
    /\ LET normalized == parseResult[c].data
       IN  /\ dbTurns' = dbTurns \cup
                 {[conversationId |-> nextId - 1, turn |-> normalized.turns[i]] :
                     i \in 1..Len(normalized.turns)}
           /\ dbLog' = Append(dbLog, [call |-> c, op |-> "turns", id |-> nextId - 1,
                                      n |-> Len(normalized.turns)])
           /\ outcome' = [outcome EXCEPT ![c] =
                            Returned(nextId - 1, Len(normalized.turns))]
    /\ pc' = [pc EXCEPT ![c] = "resolved"]
    /\ UNCHANGED <<req, detected, parseResult, conversation, response,
                   dbConversations, nextId>>

\* The batch insert of the turns succeeds, and ingest returns.
InsertTurns(c) ==
    /\ pc[c] = "insertTurns"
    /\ LET normalized == parseResult[c].data
       IN  /\ dbTurns' = dbTurns \cup
                 {[conversationId |-> conversation[c], turn |-> normalized.turns[i]] :
                     i \in 1..Len(normalized.turns)}
           /\ dbLog' = Append(dbLog, [call |-> c, op |-> "turns",
                                      id |-> conversation[c],
                                      n |-> Len(normalized.turns)])
           /\ outcome' = [outcome EXCEPT ![c] =
                            Returned(conversation[c], Len(normalized.turns))]
    /\ pc' = [pc EXCEPT ![c] = "resolved"]
    /\ UNCHANGED <<req, detected, parseResult, conversation, response,
                   dbConversations, nextId>>

\* Mutant of InsertTurnsFails: the conversation row is rolled back.
InsertTurnsFailsRollback(c) ==
    /\ pc[c] = "insertTurns"
    /\ outcome' = [outcome EXCEPT ![c] = Rejected("database error")]
    /\ pc' = [pc EXCEPT ![c] = "rejected"]
    /\ dbConversations' = {r \in dbConversations : r.id # conversation[c]}
    /\ UNCHANGED <<req, detected, parseResult, conversation, response,
                   dbTurns, dbLog, nextId>>

\* The batch insert of the turns fails: the error leaves ingest, and nothing
\* undoes the conversation insert.
InsertTurnsFails(c) ==
    /\ pc[c] = "insertTurns"
    /\ outcome' = [outcome EXCEPT ![c] = Rejected("database error")]
    /\ pc' = [pc EXCEPT ![c] = "rejected"]
    /\ UNCHANGED <<req, detected, parseResult, conversation, response,
                   dbConversations, dbTurns, dbLog, nextId>>

\* POST /ingest after ingest settled: 201 with the result, or 500 from the catch.
RouteRespond(c) ==
    /\ req[c].entry = "route" /\ pc[c] \in {"resolved", "rejected"}
    /\ response' = [response EXCEPT ![c] =
          IF outcome[c].kind = "value"
          THEN [NoResponse EXCEPT !.status = 201,
                  !.conversationId = outcome[c].conversationId,
                  !.turnCount = outcome[c].turnCount, !.format = detected[c]]
          ELSE [NoResponse EXCEPT !.status = 500, !.error = outcome[c].error]]
    /\ pc' = [pc EXCEPT ![c] = "responded"]
    /\ UNCHANGED <<req, detected, parseResult, conversation, outcome,
                   dbConversations, dbTurns, dbLog, nextId>>

\* turns.slice(0, 5)
PreviewLimit == 5

\* The response of POST /ingest/preview for a parse result.
previewResponse(result) ==
    IF result.thrown
    THEN [NoResponse EXCEPT !.status = 500, !.error = result.error]
    ELSE IF ~result.success
    THEN [NoResponse EXCEPT !.status = 400, !.error = result.error,
                            !.format = result.format]
    ELSE LET turns == result.data.turns
         IN  [NoResponse EXCEPT !.status = 200, !.format = result.format,
                !.title = result.data.title, !.source = result.data.source,
                !.turnCount = Len(turns),
                !.turns = SubSeq(turns, 1, IF Len(turns) < PreviewLimit
                                           THEN Len(turns) ELSE PreviewLimit)]

\* Mutant of RoutePreview: the parsed conversation is also saved.
RoutePreviewSaves(c) ==
    /\ req[c].entry = "preview" /\ pc[c] = "call"
    /\ \E result \in parseInput(req[c].data, Options(req[c])) :
          /\ parseResult' = [parseResult EXCEPT ![c] = result]
          /\ response' = [response EXCEPT ![c] = previewResponse(result)]
          /\ IF result.success
             THEN /\ dbConversations' = dbConversations \cup
                        {[id |-> nextId, title |-> result.data.title,
                          source |-> result.data.source,
                          channel |-> result.data.channel]}
                  /\ dbLog' = Append(dbLog, [call |-> c, op |-> "conversations",
                                             id |-> nextId, n |-> 1])
                  /\ nextId' = nextId + 1
             ELSE UNCHANGED <<dbConversations, dbLog, nextId>>
    /\ pc' = [pc EXCEPT ![c] = "responded"]
    /\ UNCHANGED <<req, detected, conversation, outcome, dbTurns>>

\* POST /ingest/preview: parse, and answer with the failure (400) or with the
\* head of the parsed conversation; nothing is written.
RoutePreview(c) ==
    /\ req[c].entry = "preview" /\ pc[c] = "call"
    /\ \E result \in parseInput(req[c].data, Options(req[c])) :
          /\ parseResult' = [parseResult EXCEPT ![c] = result]
          /\ response' = [response EXCEPT ![c] = previewResponse(result)]
    /\ pc' = [pc EXCEPT ![c] = "responded"]
    /\ UNCHANGED <<req, detected, conversation, outcome, dbConversations,
                   dbTurns, dbLog, nextId>>

Next ==
    \E c \in Calls :
        \/ CallDetectFormat(c)
        \/ CallParseInput(c)
        \/ RouteIngest(c)
        \/ IngestParse(c)
        \/ InsertConversation(c)
        \/ InsertConversationFails(c)
        \/ InsertTurns(c)
        \/ InsertTurnsFails(c)
        \/ RouteRespond(c)
        \/ RoutePreview(c)

Spec == Init /\ [][Next]_vars

NextParse == \E c \in Calls : CallDetectFormat(c) \/ CallParseInput(c)

SpecParse == InitParse /\ [][NextParse]_vars

\* Every call is an ingest call, and the calls run concurrently: the steps of
\* one call (the synchronous part up to the first await, then each awaited
\* insert) interleave with the steps of the others.
ConcData ==
    {Obj(NoVal, NoVal, Arr(<<eOk>>), NoArr),
     Obj(Str(<<"T">>), NoVal, Arr(<<eOk, eBare>>), NoArr),
     Obj(NoVal, NoVal, Arr(<<>>), NoArr),
     Obj(NoVal, Str(<<"#c">>), NoArr, Arr(<<mB, mA>>)),
     Text(<<lHdr, lHi, lHdrWs>>),
     Other}

InitConcurrent ==
    \E rs \in [Calls -> {Request("ingest", d, "", NoVal) : d \in ConcData}] :
        InitWith(rs)

NextConcurrent ==
    \E c \in Calls :
        \/ IngestParse(c)
        \/ InsertConversation(c)
        \/ InsertConversationFails(c)
        \/ InsertTurns(c)
        \/ InsertTurnsFails(c)

SpecConcurrent == InitConcurrent /\ [][NextConcurrent]_vars

\* ------------------------------------------------------------------ claims
\* The calls whose parseInput has returned a success.
Succeeded(c) == pc[c] = "returned" /\ req[c].entry = "parse" /\ parseResult[c].success
TurnsOf(c) == parseResult[c].data.turns
ItemsOf(c) == req[c].data.messages.items

\* C1: in every successful parse, of any of the four formats, the turn at
\* position i (from 0) has turnIndex i.
C1_TurnIndexContiguous ==
    \A c \in Calls :
        Succeeded(c) => \A i \in 1..Len(TurnsOf(c)) : TurnsOf(c)[i].turnIndex = i - 1

\* C1 witness: a chat log parsed into two or more turns after a message was
\* dropped and the messages were put in another order.
C1_Witness ==
    \E c \in Calls :
        /\ Succeeded(c) /\ parseResult[c].format = "chat-log"
        /\ Len(TurnsOf(c)) >= 2
        /\ Len(TurnsOf(c)) < Len(ItemsOf(c))
        /\ StableSort(ItemsOf(c)) # ItemsOf(c)

\* C2 (as claimed): no turn of a successful parse has a text that is empty
\* after trimming.
C2_NoEmptyText ==
    \A c \in Calls :
        Succeeded(c) => \A i \in 1..Len(TurnsOf(c)) : ~IsBlank(TurnsOf(c)[i].text.s)

AllResolvable(ms) == \A i \in 1..Len(ms) : parseTimestampToMs(ms[i]).k = "num"

\* C3 (as claimed): a chat log whose messages all have a resolvable timestamp
\* gives turns in non-decreasing time order, the first with startMs 0.
C3_ChatLogOrdering ==
    \A c \in Calls :
        (Succeeded(c) /\ parseResult[c].format = "chat-log" /\ AllResolvable(ItemsOf(c)))
          => /\ \A i, j \in 1..Len(TurnsOf(c)) :
                    i < j => TurnsOf(c)[i].startMs.v <= TurnsOf(c)[j].startMs.v
             /\ Len(TurnsOf(c)) > 0 => TurnsOf(c)[1].startMs = Num(0)

Detected(c) == pc[c] = "returned" /\ req[c].entry = "detect"

\* C4: detectFormat returns one tag, the first that matches in the order
\* json-transcript, chat-log, srt, whatsapp, unknown.
C4_DetectionOrder ==
    \A c \in Calls :
        Detected(c) =>
            LET d == req[c].data
                json == isJsonTranscript(d)
                chat == isChatLog(d)
                srt == d.kind = "text" /\ isSrtText(d)
                wa == d.kind = "text" /\ isWhatsAppText(d)
            IN  /\ detected[c] \in {"json-transcript", "chat-log", "srt", "whatsapp", "unknown"}
                /\ json => detected[c] = "json-transcript"
                /\ (~json /\ chat) => detected[c] = "chat-log"
                /\ (~json /\ ~chat /\ srt) => detected[c] = "srt"
                /\ (~json /\ ~chat /\ ~srt /\ wa) => detected[c] = "whatsapp"
                /\ (~json /\ ~chat /\ ~srt /\ ~wa) => detected[c] = "unknown"
                /\ (d.kind # "text" /\ ~json /\ ~chat) => detected[c] = "unknown"

\* C4 witness: a text that passes both the SRT and the WhatsApp check is srt.
C4_Witness ==
    \E c \in Calls :
        /\ Detected(c) /\ detected[c] = "srt"
        /\ isSrtText(req[c].data) /\ isWhatsAppText(req[c].data)

\* What the spec asks of one entry: a text key and one of speaker / timestamp.
EntryOk(e) == e.obj /\ e.text.k # "absent" /\ (e.speaker.k # "absent" \/ e.timestamp.k # "absent")
LacksBoth(e) == e.speaker.k = "absent" /\ e.timestamp.k = "absent"

\* C5: an input is json-transcript exactly when it is an object whose entries
\* array has, in its first up-to-3 elements, a text key and one of speaker /
\* timestamp; entries that all lack both are never json-transcript and, when
\* no other format matches, are unknown.
C5_JsonTranscriptShape ==
    \A c \in Calls :
        Detected(c) =>
            LET d == req[c].data
                es == d.entries.items
                n == IF Len(es) < 3 THEN Len(es) ELSE 3
            IN  /\ detected[c] = "json-transcript"
                     <=> (d.kind = "obj" /\ d.entries.arr /\ \A i \in 1..n : EntryOk(es[i]))
                /\ (d.kind = "obj" /\ d.entries.arr /\ Len(es) > 0
                      /\ \A i \in 1..Len(es) : LacksBoth(es[i]))
                     => /\ detected[c] # "json-transcript"
                        /\ ~d.messages.arr => detected[c] = "unknown"

\* C5 witness: entries with a text but neither speaker nor timestamp, unknown.
C5_Witness ==
    \E c \in Calls :
        /\ Detected(c) /\ detected[c] = "unknown"
        /\ req[c].data.entries.arr /\ Len(req[c].data.entries.items) > 0
        /\ \A i \in 1..Len(req[c].data.entries.items) :
              LET e == req[c].data.entries.items[i]
              IN  e.obj /\ e.text.k = "str" /\ LacksBoth(e)

ShapeMatches(format, d) ==
    IF format = "json-transcript" THEN isJsonTranscript(d)
    ELSE IF format = "chat-log" THEN isChatLog(d)
    ELSE IF format = "srt" THEN isSrtText(d)
    ELSE isWhatsAppText(d)

\* C6 (as claimed): with an explicit format, a payload whose shape does not
\* match that format makes parseInput fail, with that format tag.
C6_ExplicitFormatValidated ==
    \A c \in Calls :
        (pc[c] = "returned" /\ req[c].entry = "parse"
           /\ req[c].format \in {"json-transcript", "chat-log", "whatsapp", "srt"}
           /\ ~ShapeMatches(req[c].format, req[c].data))
          => ~parseResult[c].success /\ parseResult[c].format = req[c].format

\* Whether the parser of format f raises an exception on d.
ParserThrows(f, d, title) ==
    \/ f = "json-transcript" /\ isJsonTranscript(d) /\ parseJsonTranscript(d, title).threw
    \/ f = "chat-log" /\ isChatLog(d) /\ \E r \in parseChatLog(d, title) : r.threw

\* C7: parseInput always returns a ParseResult: for an unknown format a failure
\* tagged unknown that names the supported formats, and for an exception of a
\* parser a failure that carries its message.
C7_ParseInputNeverThrows ==
    \A c \in Calls :
        (pc[c] = "returned" /\ req[c].entry = "parse") =>
            LET f == resolveFormat(req[c].data, Options(req[c]))
                r == parseResult[c]
            IN  /\ outcome[c].kind = "value" /\ ~r.thrown
                /\ f = "unknown" =>
                     ~r.success /\ r.format = "unknown" /\ r.error = UnknownFormatError
                /\ ParserThrows(f, req[c].data, req[c].title) =>
                     ~r.success /\ r.error = "TypeError" /\ r.format = f

\* C7 witness: an exception of a parser came back as a failure.
C7_Witness ==
    \E c \in Calls :
        /\ pc[c] = "returned" /\ req[c].entry = "parse"
        /\ ParserThrows(parseResult[c].format, req[c].data, req[c].title)
        /\ ~parseResult[c].success /\ parseResult[c].error = "TypeError"

ShapeErrors ==
    {"Data does not match json-transcript format", "Data does not match chat-log format",
     "WhatsApp format requires plain text input", "SRT format requires plain text input"}

\* parseInput reported a detection failure or a shape mismatch.
DetectionOrShapeFailure(c) ==
    /\ pc[c] \in {"returned", "rejected", "resolved", "responded"}
    /\ ~parseResult[c].success
    /\ parseResult[c].error \in ShapeErrors \cup {UnknownFormatError}

\* C8 (as claimed): a detection failure or a shape mismatch is never thrown,
\* neither by parseInput nor by ingest.
C8_FailuresNeverThrown ==
    \A c \in Calls :
        (req[c].entry \in {"parse", "ingest"} /\ DetectionOrShapeFailure(c))
          => outcome[c].kind # "thrown"

\* The ingest of call c is past its parse, and the parse failed (or the route
\* answered before calling ingest).
ParseFailed(c) ==
    /\ req[c].entry \in {"ingest", "route"}
    /\ pc[c] \in {"insertConversation", "insertTurns", "rejected", "resolved", "responded"}
    /\ ~parseResult[c].success

\* C9: when parsing fails, ingest writes nothing: no insert of the call is in
\* the log and every row of the store was written by another call.
C9_NoWriteOnParseFailure ==
    \A c \in Calls :
        ParseFailed(c) =>
            /\ \A i \in 1..Len(dbLog) : dbLog[i].call # c
            /\ conversation[c] = 0
            /\ \A row \in dbConversations :
                  \E i \in 1..Len(dbLog) :
                      dbLog[i].op = "conversations" /\ dbLog[i].id = row.id /\ dbLog[i].call # c
            /\ \A row \in dbTurns :
                  \E i \in 1..Len(dbLog) :
                      dbLog[i].op = "turns" /\ dbLog[i].id = row.conversationId
                        /\ dbLog[i].call # c

\* C9 witness: ingest threw on a shape mismatch.
C9_Witness ==
    \E c \in Calls :
        /\ ParseFailed(c) /\ req[c].entry = "ingest" /\ pc[c] = "rejected"
        /\ parseResult[c].error = "Data does not match chat-log format"

\* C10: in the log a turns insert comes after the conversation insert whose id
\* it carries; a successful ingest has issued the conversation insert and then,
\* exactly when there is a turn, the turns insert; the turns in the store carry
\* the generated id; and turnCount is the number of parsed turns.
C10_IngestWrites ==
    /\ \A j \in 1..Len(dbLog) :
          dbLog[j].op = "turns" =>
              \E i \in 1..(j - 1) :
                  /\ dbLog[i].op = "conversations"
                  /\ dbLog[i].id = dbLog[j].id /\ dbLog[i].call = dbLog[j].call
    /\ \A c \in Calls :
          (req[c].entry \in {"ingest", "route"} /\ outcome[c].kind = "value") =>
              LET turns == parseResult[c].data.turns
                  id == conversation[c]
                  mine(e) == e.call = c
                  ops == SelectSeq(dbLog, mine)
              IN  /\ Len(ops) = (IF Len(turns) > 0 THEN 2 ELSE 1)
                  /\ ops[1].op = "conversations" /\ ops[1].id = id
                  /\ Len(turns) > 0 => (ops[2].op = "turns" /\ ops[2].id = id
                                          /\ ops[2].n = Len(turns))
                  /\ \E row \in dbConversations : row.id = id
                  /\ {row \in dbTurns : row.conversationId = id}
                       = {[conversationId |-> id, turn |-> turns[i]] : i \in 1..Len(turns)}
                  /\ outcome[c].conversationId = id
                  /\ outcome[c].turnCount = Len(turns)

\* C10 witness: an ingest that returned after inserting its turns.
C10_Witness ==
    \E c \in Calls :
        /\ req[c].entry = "ingest" /\ pc[c] = "resolved"
        /\ outcome[c].kind = "value" /\ outcome[c].turnCount >= 1
        /\ Cardinality(dbTurns) = outcome[c].turnCount

\* The calls whose turns insert failed after their conversation insert succeeded.
TurnsInsertFailed(c) ==
    /\ pc[c] \in {"rejected", "responded"}
    /\ outcome[c].kind = "thrown"
    /\ conversation[c] # 0

\* C11: the two writes of ingest are not atomic.  Whenever ingest has inserted
\* the conversation of an input with at least one turn, the turns insert can
\* fail; and once it has failed, the store holds the conversation row of the
\* call with no turn referencing it, and ingest has thrown (the route answers
\* 500).
C11_NonAtomicIngest ==
    \A c \in Calls :
        /\ pc[c] = "insertTurns" =>
              /\ Len(parseResult[c].data.turns) > 0
              /\ ENABLED InsertTurnsFails(c)
        /\ (Succeeded(c) \/ pc[c] = "insertConversation") => conversation[c] = 0
        /\ (conversation[c] # 0 /\ Len(parseResult[c].data.turns) > 0
               /\ outcome[c].kind = "none") => pc[c] = "insertTurns"
        /\ TurnsInsertFailed(c) =>
              /\ \E r \in dbConversations : r.id = conversation[c]
              /\ ~\E t \in dbTurns : t.conversationId = conversation[c]
              /\ pc[c] = "responded" => response[c].status = 500

\* C11 witness: a turns insert has failed, leaving a conversation row and no turn.
C11_Witness ==
    \E c \in Calls :
        /\ TurnsInsertFailed(c)
        /\ Len(parseResult[c].data.turns) > 0
        /\ dbConversations # {} /\ dbTurns = {}

\* The rows of the turns table that reference the conversation id.
TurnsReferencing(id) == {t \in dbTurns : t.conversationId = id}

\* C12: concurrent ingest calls are independent.  Under every interleaving,
\* the conversation ids of two calls differ; every turns insert of a call
\* carries the id that the conversation insert of the same call returned; a
\* call that returned reports that id and the number of turns of its own parse
\* (what parseInput gives for its input alone); and the turns stored under its
\* id are exactly its own.
C12_ConcurrentIngestIndependent ==
    \A c \in Calls :
        /\ \A d \in Calls \ {c} :
              conversation[c] # 0 => conversation[c] # conversation[d]
        /\ \A i \in 1..Len(dbLog) :
              dbLog[i].call = c =>
                 /\ dbLog[i].id = conversation[c]
                 /\ dbLog[i].op = "turns" =>
                       \E j \in 1..(i - 1) :
                           /\ dbLog[j].call = c /\ dbLog[j].op = "conversations"
                           /\ dbLog[j].id = dbLog[i].id
        /\ pc[c] # "ingest" => parseResult[c] \in parseInput(req[c].data, Options(req[c]))
        /\ conversation[c] # 0 =>
              \E r \in dbConversations :
                  /\ r.id = conversation[c]
                  /\ r.title = parseResult[c].data.title
                  /\ r.source = parseResult[c].data.source
        /\ pc[c] = "resolved" =>
              /\ outcome[c] = Returned(conversation[c], Len(parseResult[c].data.turns))
              /\ conversation[c] # 0
              /\ TurnsReferencing(conversation[c])
                    = {[conversationId |-> conversation[c],
                        turn |-> parseResult[c].data.turns[i]] :
                           i \in 1..Len(parseResult[c].data.turns)}
        /\ (pc[c] # "resolved" /\ conversation[c] # 0) =>
              TurnsReferencing(conversation[c]) = {}

\* C12 witness: two calls with different inputs both returned, their writes
\* interleaved (both conversation inserts came before either turns insert).
C12_Witness ==
    \E c, d \in Calls :
        /\ c # d /\ req[c].data # req[d].data
        /\ pc[c] = "resolved" /\ pc[d] = "resolved"
        /\ outcome[c].turnCount > 0 /\ outcome[d].turnCount > 0
        /\ Len(dbLog) >= 4
        /\ dbLog[1].op = "conversations" /\ dbLog[2].op = "conversations"
        /\ dbLog[1].call = c /\ dbLog[2].call = d /\ dbLog[3].call = c

\* C13: a preview writes nothing, whether the parse succeeds or fails; on
\* success it answers with the format tag, the resolved title, the source tag,
\* turnCount = the number of parsed turns, and the first min(5, turnCount)
\* turns in order; on failure with the error and the format.
C13_PreviewNoWrite ==
    \A c \in Calls :
        req[c].entry = "preview" =>
          /\ dbLog = <<>> /\ dbConversations = {} /\ dbTurns = {} /\ nextId = 1
          /\ pc[c] = "responded" =>
                LET result == parseResult[c]
                    turns == result.data.turns
                    n == IF Len(turns) < 5 THEN Len(turns) ELSE 5
                IN  /\ result \in parseInput(req[c].data, Options(req[c]))
                    /\ result.success =>
                          /\ response[c].status = 200
                          /\ response[c].format = resolveFormat(req[c].data, Options(req[c]))
                          /\ response[c].title = result.data.title
                          /\ response[c].source = result.data.source
                          /\ response[c].source = response[c].format
                          /\ response[c].turnCount = Len(turns)
                          /\ Len(response[c].turns) = n
                          /\ \A i \in 1..n : response[c].turns[i] = turns[i]
                    /\ ~result.success =>
                          /\ response[c].status = 400
                          /\ response[c].error = result.error
                          /\ response[c].turns = <<>> /\ response[c].turnCount = 0

\* C13 witness: a preview of a transcript of more than five turns answered
\* with five of them.
C13_Witness ==
    \E c \in Calls :
        /\ req[c].entry = "preview" /\ pc[c] = "responded"
        /\ response[c].status = 200
        /\ response[c].turnCount > 5 /\ Len(response[c].turns) = 5

\* A title that was supplied: a string that is not empty.
Supplied(t) == t.k = "str" /\ t.s # <<>>

\* The title the precedence rule gives a successful parse of format f.
TitleByPrecedence(f, data, title) ==
    IF Supplied(title) THEN title
    ELSE IF f = "json-transcript"
    THEN (IF Supplied(data.title) THEN data.title ELSE Str(<<"Untitled Transcript">>))
    ELSE IF f = "chat-log"
    THEN (IF Supplied(data.title) THEN data.title
          ELSE IF Supplied(data.channel) THEN data.channel
          ELSE Str(<<"Untitled Chat">>))
    ELSE IF f = "whatsapp" THEN Str(<<"WhatsApp Chat">>)
    ELSE Str(<<"Subtitle Transcript">>)

\* C14: the title of every parsed conversation is the caller's title when one
\* is supplied (a non-empty string); otherwise the embedded title
\* (json-transcript: input title; chat-log: input title, then channel);
\* otherwise the default string of the format.  It is never empty.
C14_TitlePrecedence ==
    \A c \in Calls :
        (req[c].entry \in {"parse", "preview"} /\ pc[c] \in {"returned", "responded"}
           /\ parseResult[c].success) =>
            /\ parseResult[c].data.title
                  = TitleByPrecedence(parseResult[c].format, req[c].data, req[c].title)
            /\ parseResult[c].data.title.k = "str"
            /\ parseResult[c].data.title.s # <<>>

\* C14 witness: a chat log with an empty title and a channel, parsed with no
\* caller title, is titled by its channel.
C14_Witness ==
    \E c \in Calls :
        /\ req[c].entry = "parse" /\ pc[c] = "returned" /\ parseResult[c].success
        /\ parseResult[c].format = "chat-log"
        /\ ~Supplied(req[c].title) /\ req[c].data.title = Str(<<>>)
        /\ parseResult[c].data.title = Str(<<"#c">>)

\* The calls whose parseInput returned a success of the format.
SucceededAs(c, f) == Succeeded(c) /\ parseResult[c].format = f

\* The lines parseWhatsApp iterates over.
WaLines(c) == NonBlankLines(req[c].data.lines)
IsHeader(l) == parseLine(l).ok
\* The positions of the header lines, and the header-order position of one.
HeaderPositions(ls) == {i \in 1..Len(ls) : IsHeader(ls[i])}
HeaderRank(ls, i) == Cardinality({j \in HeaderPositions(ls) : j <= i})
\* The lines that follow the header at i up to the next header.
FollowingLines(ls, i) ==
    LET stop == IF \E j \in HeaderPositions(ls) : j > i
                THEN CHOOSE j \in HeaderPositions(ls) :
                        j > i /\ \A k \in HeaderPositions(ls) : k > i => j <= k
                ELSE Len(ls) + 1
    IN  SubSeq(ls, i + 1, stop - 1)
LineBreaks(text) == Cardinality({i \in 1..Len(text) : text[i] = "\n"})

\* C15: in a parsed WhatsApp text, the header at any position, followed by N
\* non-matching lines, gives the one turn of its rank whose text is the
\* header's message text followed by those N lines in order (whitespace at
\* the two ends aside), with exactly N line breaks.
C15_WhatsAppContinuation ==
    \A c \in Calls :
        SucceededAs(c, "whatsapp") =>
            LET ls == WaLines(c)
            IN  \A i \in HeaderPositions(ls) :
                    LET follow == FollowingLines(ls, i)
                        r == HeaderRank(ls, i)
                        joined == JoinLines(<<parseLine(ls[i]).text>>
                                     \o [k \in 1..Len(follow) |-> LineChars(follow[k])])
                    IN  /\ r <= Len(TurnsOf(c))
                        /\ TurnsOf(c)[r].text.s = Trim(joined)
                        /\ LineBreaks(TurnsOf(c)[r].text.s) = Len(follow)

\* C16: parseWhatsApp emits one turn per header line, in header order (each
\* turn carries the speaker, date and time of the header of its rank); lines
\* before the first header are discarded: the result is that of the text
\* without them, and a text with no header gives no turn.
C16_WhatsAppStateMachine ==
    \A c \in Calls :
        SucceededAs(c, "whatsapp") =>
            LET ls == WaLines(c)
                hp == HeaderPositions(ls)
                first == IF hp = {} THEN Len(ls) + 1
                         ELSE CHOOSE i \in hp : \A j \in hp : i <= j
            IN  /\ Len(TurnsOf(c)) = Cardinality(hp)
                /\ \A i \in hp :
                      LET t == TurnsOf(c)[HeaderRank(ls, i)]
                      IN  /\ t.speaker = Str(Trim(ls[i].spk))
                          /\ t.orig = <<ls[i].date, ls[i].time>>
                          /\ t.turnIndex = HeaderRank(ls, i) - 1
                /\ parseWhatsApp(SubSeq(ls, first, Len(ls)), req[c].title).conv.turns
                      = TurnsOf(c)

\* C16 witness: a text with a line before the first header and two headers
\* was parsed into two turns.
C16_Witness ==
    \E c \in Calls :
        /\ SucceededAs(c, "whatsapp")
        /\ Len(WaLines(c)) = 3
        /\ ~IsHeader(WaLines(c)[1])
        /\ Cardinality(HeaderPositions(WaLines(c))) = 2
        /\ Len(TurnsOf(c)) = 2

\* The absolute time of a WhatsApp turn, from the date and time it carries.
WaAbsolute(t) == parseDateTime(t.orig[1], t.orig[2])

\* C17: in WhatsApp output a turn has a startMs exactly when its date and
\* time resolve; the first turn that has one has startMs 0, and every other
\* present startMs is the turn's absolute time minus the absolute time of
\* that first resolvable turn, also when the first emitted turn did not resolve.
C17_WhatsAppElapsedFromFirstResolvable ==
    \A c \in Calls :
        SucceededAs(c, "whatsapp") =>
            LET ts == TurnsOf(c)
                have == {i \in 1..Len(ts) : ts[i].startMs.k # "undef"}
            IN  /\ \A i \in 1..Len(ts) : (i \in have) <=> (WaAbsolute(ts[i]).k = "num")
                /\ have # {} =>
                      LET f == CHOOSE i \in have : \A j \in have : i <= j
                      IN  /\ ts[f].startMs = Num(0)
                          /\ \A i \in have :
                                ts[i].startMs
                                   = Num(WaAbsolute(ts[i]).v - WaAbsolute(ts[f]).v)

\* The timestamp of a message by the precedence: numeric ts, else a parseable
\* timestamp, else date with the optional time, else none.
ClaimedTimestamp(m) ==
    IF m.ts.k = "numstr"
    THEN (IF m.ts.v < TsThreshold THEN Num(m.ts.v) ELSE Num(m.ts.v \div 1000))
    ELSE IF DateOf(m.timestamp).k = "num" THEN DateOf(m.timestamp)
    ELSE IF m.date.k = "absent" THEN Undef
    ELSE IF m.time.k # "absent"
    THEN (IF DateTimeOf(m.date, m.time).k = "num"
          THEN DateTimeOf(m.date, m.time) ELSE Undef)
    ELSE IF DateOf(m.date).k = "num" THEN DateOf(m.date)
    ELSE Undef

\* C18: in a parsed chat log the timestamp of every message resolves by the
\* precedence ts (seconds below 4102444800, else milliseconds), timestamp,
\* date with time, none; a ts that is not numeric falls through; and every
\* turn's startMs is a number or absent, never a non-number.
C18_ChatTimestampPrecedence ==
    \A c \in Calls :
        SucceededAs(c, "chat-log") =>
            /\ \A i \in 1..Len(ItemsOf(c)) :
                  parseTimestampToMs(ItemsOf(c)[i]) = ClaimedTimestamp(ItemsOf(c)[i])
            /\ \A i \in 1..Len(TurnsOf(c)) :
                  TurnsOf(c)[i].startMs.k \in {"num", "undef"}

\* The least of a non-empty set of numbers.
Least(S) == CHOOSE n \in S : \A m \in S : n <= m

\* C19: in a parsed chat log, with the baseline the least resolved timestamp
\* of all the input messages, the turns are those of the kept messages in
\* sorted order: startMs = resolved - baseline >= 0 for a message with a
\* resolved timestamp, no startMs for one without, and never an endMs.
C19_ChatBaseline ==
    \A c \in Calls :
        SucceededAs(c, "chat-log") =>
            LET ms == ItemsOf(c)
                resolved == {parseTimestampToMs(ms[i]).v :
                               i \in {j \in 1..Len(ms) : parseTimestampToMs(ms[j]).k = "num"}}
                baseline == IF resolved = {} THEN 0 ELSE Least(resolved)
            IN  \E sorted \in SortOutcomes(ms) :
                    LET kept == SelectSeq(sorted, keepsMessage)
                    IN  /\ Len(TurnsOf(c)) = Len(kept)
                        /\ \A i \in 1..Len(kept) :
                              LET r == parseTimestampToMs(kept[i])
                                  t == TurnsOf(c)[i]
                              IN  /\ t.endMs = Undef
                                  /\ t.text = extractText(kept[i])
                                  /\ IF r.k = "num"
                                     THEN /\ t.startMs = Num(r.v - baseline)
                                          /\ t.startMs.v >= 0
                                     ELSE t.startMs = Undef

\* The blocks of the text of a call: its maximal runs of non-blank lines.
SrtBlocksOf(c) == splitBlocks(req[c].data.lines, <<>>, <<>>)
\* A block with at least three lines, an integer first, a cue range second.
IsValidSrtBlock(b) ==
    /\ Len(b) >= 3
    /\ LET first == TrimStart(LineChars(b[1]))
       IN  first # <<>> /\ Head(first) \in Digits
    /\ b[2].t = "cue"
\* H*3600000 + M*60000 + S*1000 + mmm
CueMs(x) == x[1] * 3600000 + x[2] * 60000 + x[3] * 1000 + x[4]

\* C20: parseSrt emits one turn per valid block, in block order (a block is
\* valid iff it has at least 3 non-blank lines, an integer first line and a
\* cue range as second line); the turn of the i-th valid block has turnIndex
\* i - 1, the absolute cue times as startMs and endMs, and the cue index of
\* the block in its metadata.
C20_SrtOneTurnPerValidBlock ==
    \A c \in Calls :
        SucceededAs(c, "srt") =>
            LET valid == SelectSeq(SrtBlocksOf(c), IsValidSrtBlock)
            IN  /\ Len(TurnsOf(c)) = Len(valid)
                /\ \A i \in 1..Len(valid) :
                      LET t == TurnsOf(c)[i]
                      IN  /\ t.turnIndex = i - 1
                          /\ t.startMs = Num(CueMs(valid[i][2].s))
                          /\ t.endMs = Num(CueMs(valid[i][2].e))
                          /\ t.srtIndex = Num(digitsValue(TrimStart(LineChars(valid[i][1])), 0))

\* C20 witness: an SRT text with an invalid block and then a valid one was
\* parsed into one turn that does not start at 0.
C20_Witness ==
    \E c \in Calls :
        /\ SucceededAs(c, "srt")
        /\ Len(SrtBlocksOf(c)) = 2
        /\ ~IsValidSrtBlock(SrtBlocksOf(c)[1])
        /\ Len(TurnsOf(c)) = 1
        /\ TurnsOf(c)[1].startMs.k = "num" /\ TurnsOf(c)[1].startMs.v > 0
        /\ TurnsOf(c)[1].srtIndex.k = "num"

\* The entries of the input of a call.
EntriesOf(c) == req[c].data.entries.items

\* C21: parseJsonTranscript emits turn i from entry i, in input order: the
\* text verbatim; the speaker, or "Unknown" when it is absent or empty;
\* startMs = start when present (0 included), else the value the timestamp
\* resolves to, else absent; endMs = end verbatim.  Nothing is rebased.
C21_JsonTranscriptPassThrough ==
    \A c \in Calls :
        SucceededAs(c, "json-transcript") =>
            /\ Len(TurnsOf(c)) = Len(EntriesOf(c))
            /\ \A i \in 1..Len(EntriesOf(c)) :
                  LET e == EntriesOf(c)[i]
                      t == TurnsOf(c)[i]
                  IN  /\ t.turnIndex = i - 1
                      /\ t.text = e.text
                      /\ t.speaker = IF e.speaker.k = "absent" \/ e.speaker = Str(<<>>)
                                     THEN Str(<<"Unknown">>) ELSE e.speaker
                      /\ e.start.k = "num" => t.startMs = e.start
                      /\ (e.start.k = "undef" /\ e.timestamp.k = "absent") =>
                            t.startMs = Undef
                      /\ (e.start.k = "undef" /\ e.timestamp.k # "absent") =>
                            t.startMs = jsonParseTimestampToMs(e.timestamp)
                      /\ t.endMs = e.end

\* C21 witness: a parsed transcript whose first turn starts after 0, with an
\* entry whose start is 0 beside a timestamp, and an entry with an end.
C21_Witness ==
    \E c \in Calls :
        /\ SucceededAs(c, "json-transcript")
        /\ Len(TurnsOf(c)) >= 3
        /\ TurnsOf(c)[1].startMs.k = "num" /\ TurnsOf(c)[1].startMs.v > 0
        /\ \E i \in 1..Len(TurnsOf(c)) :
              /\ EntriesOf(c)[i].start = Num(0)
              /\ jsonParseTimestampToMs(EntriesOf(c)[i].timestamp) = Num(5000)
              /\ TurnsOf(c)[i].startMs = Num(0)
        /\ \E i \in 1..Len(TurnsOf(c)) :
              TurnsOf(c)[i].endMs = Num(9000) /\ TurnsOf(c)[i].speaker = Str(<<"Unknown">>)

\* The calls of detectFormat that returned, on a text that is not SRT.
DetectedText(c) ==
    /\ req[c].entry = "detect" /\ pc[c] = "returned"
    /\ req[c].data.kind = "text" /\ ~isSrtText(req[c].data)
\* The size of the sample (the first up-to-10 non-blank lines) and the number
\* of its lines that are headers.
SampleCount(c) == IF Len(WaLines(c)) < 10 THEN Len(WaLines(c)) ELSE 10
SampleMatches(c) == Cardinality({i \in 1..SampleCount(c) : IsHeader(WaLines(c)[i])})
\* matches / sample >= 0.3
AtLeastThreeTenths(c) == SampleCount(c) > 0 /\ SampleMatches(c) * 10 >= 3 * SampleCount(c)

\* C22: a text that is not SRT is classified whatsapp exactly when at least
\* 0.3 of its first up-to-10 non-blank lines match a WhatsApp line pattern,
\* a single matching line included.
C22_WhatsAppDetectionFraction ==
    \A c \in Calls :
        DetectedText(c) => (detected[c] = "whatsapp" <=> AtLeastThreeTenths(c))

\* C22 amended: a text that is not SRT is classified whatsapp exactly when it
\* has at least two non-blank lines and at least 0.3 of its first up-to-10
\* non-blank lines match; otherwise it is unknown.
C22_WhatsAppDetectionTwoLines ==
    \A c \in Calls :
        DetectedText(c) =>
            /\ detected[c] = "whatsapp"
                  <=> (Len(WaLines(c)) >= 2 /\ AtLeastThreeTenths(c))
            /\ detected[c] \in {"whatsapp", "unknown"}

\* C22 witness: a text of more than ten lines with exactly 3 headers among
\* the first ten was classified whatsapp.
C22_Witness ==
    \E c \in Calls :
        /\ DetectedText(c)
        /\ Len(WaLines(c)) > 10
        /\ SampleMatches(c) = 3
        /\ detected[c] = "whatsapp"

====
